---------------------------- MODULE Spec2Model ----------------------------
(***************************************************************************)
(* A model of the p2p-chat session coordinator (src/src/main.rs): the     *)
(* main task, the spawned inbound dispatch task (subscribe_loop), the      *)
(* terminal input thread (input_loop), the capacity-1 handoff channel      *)
(* between input thread and main task, and the mutex-guarded peer          *)
(* directory (names).                                                      *)
(*                                                                         *)
(* Text is modelled as a sequence of one-character strings, so that        *)
(* trim / starts_with / fmt_short are computed instead of assumed.         *)
(***************************************************************************)
EXTENDS Integers, Sequences, FiniteSets, Bags, TLC

VARIABLES
    args_name,      \* Args.name : NoName or a display name             (l.17)
    mainPc,         \* position of main                                  (l.33-142)
    mainResult,     \* value main returned ("none" while running)
    text,           \* main's trimmed current line                       (l.108)
    subPc,          \* position of subscribe_loop                        (l.160-184)
    subResult,      \* value subscribe_loop returned ("none" while running)
    cur,            \* the decoded Message subscribe_loop is handling    (l.164)
    name,           \* the rendered sender name looked up by dispatch    (l.173)
    inPc,           \* position of input_loop                            (l.149-158)
    buffer,         \* input_loop's line buffer                          (l.150)
    line_chan,      \* lines pending in the mpsc channel                 (l.101)
    names,          \* the peer directory HashMap<NodeId, String>        (l.96)
    names_lock,     \* owner of the Mutex around names                   (l.96)
    sent,           \* payloads handed to sender.broadcast, in order
    mainOut,        \* what main wrote to the terminal in the chat, in order
                    \* (the "->" status lines of startup are left out)
    subOut,         \* what subscribe_loop wrote to the terminal, in order
    taken,          \* lines main took from the channel, in order
    aboutLog,       \* AboutMe messages inserted by dispatch, in order
    typed,          \* number of read_line calls that returned
    delivered,      \* number of items the receive stream yielded
    yielded,        \* the items the receive stream yielded, in order
    typedLog,       \* what the read_line calls returned, in order
    shutdown_called,\* whether router_builder.shutdown() was called      (l.139)
    command,        \* Args.command : Open or Join { ticket }            (l.20)
    topic,          \* the topic id main resolved                        (l.36)
    nodes,          \* the node addresses main resolved                  (l.36)
    known,          \* addresses registered by add_node_addr             (l.80)
    tk,             \* a Ticket value                                    (l.187)
    tkText,         \* the text of tk, as printed or as typed back
    tkParsed,       \* what Ticket::from_str returned for tkText
    tkPc            \* position in print, retype, parse

vars == <<args_name, mainPc, mainResult, text, subPc, subResult, cur, name,
          inPc, buffer, line_chan, names, names_lock, sent, mainOut, subOut, taken,
          aboutLog, typed, delivered, yielded, typedLog, shutdown_called,
          command, topic, nodes, known, tk, tkText, tkParsed, tkPc>>

startVars  == <<command, topic, nodes, known>>
ticketVars == <<tk, tkText, tkParsed, tkPc>>
mainVars == <<mainPc, mainResult, text, sent, taken, shutdown_called>>
subVars  == <<subPc, subResult, cur, name, aboutLog, delivered, yielded>>
inVars   == <<inPc, buffer, typed, typedLog>>
output   == <<mainOut, subOut>>

-----------------------------------------------------------------------------
(* Bounds of the model *)

\* number of inputs the environment supplies in one run: lines answered to
\* read_line plus items yielded by the receive stream
MaxInputs == 3

-----------------------------------------------------------------------------
(* Text *)

Slash == <<"/">>
CmdExit == <<"/", "e", "x", "i", "t">>
CmdList == <<"/", "l", "i", "s", "t">>
Empty == << >>

\* char::is_whitespace restricted to the characters a terminal line holds
IsSpace(c) == c \in {" ", "\n", "\t", "\r"}

RECURSIVE TrimStart(_)
TrimStart(s) ==
    IF s # Empty /\ IsSpace(Head(s)) THEN TrimStart(Tail(s)) ELSE s

RECURSIVE TrimEnd(_)
TrimEnd(s) ==
    IF s # Empty /\ IsSpace(s[Len(s)]) THEN TrimEnd(SubSeq(s, 1, Len(s) - 1)) ELSE s

\* str::trim                                                        (l.108)
Trim(s) == TrimEnd(TrimStart(s))

\* str::starts_with                                                 (l.110)
starts_with(s, p) == Len(s) >= Len(p) /\ SubSeq(s, 1, Len(p)) = p

\* what read_line can put into the buffer: a physical line with its
\* newline, or nothing at all at end of input (Ok(0))
LineExit == <<"/", "e", "x", "i", "t", "\n">>
LineList == <<"/", "l", "i", "s", "t", "\n">>
LineFoo  == <<" ", "/", "f", "o", "o", "\n">>
LineHi   == <<"h", "i", " ", "\n">>
Lines == {LineExit, LineList, LineFoo, LineHi, Empty}

-----------------------------------------------------------------------------
(* Identities and names *)

NoName == <<"-">>
Alice == <<"a", "l", "i", "c", "e">>
Bob   == <<"b", "o", "b">>
Carol == <<"c", "a", "r", "o", "l">>
ArgNames == {NoName, Alice}
PeerNames == {Bob, Carol}

\* NodeId values, as hexadecimal digits
node_id == <<"a", "1", "0", "7">>
PeerX   == <<"b", "2", "e", "4">>
PeerY   == <<"b", "2", "9", "c">>
NodeIds == {node_id, PeerX, PeerY}

\* number of digits NodeId::fmt_short keeps
ShortLen == 2

\* NodeId::fmt_short                                          (l.168, l.175)
fmt_short(id) == SubSeq(id, 1, ShortLen)

-----------------------------------------------------------------------------
(* Message protocol                                            (l.218-232) *)

MsgAboutMe(from, n) == [tag |-> "AboutMe", from |-> from, body |-> n]
\* a Message built with its fields in the other order
MsgMessage_swapped(from, t) == [tag |-> "Message", from |-> t, body |-> from]

MsgMessage(from, t) == [tag |-> "Message", from |-> from, body |-> t]
NoMessage == [tag |-> "none", from |-> Empty, body |-> Empty]

\* Message::to_vec: the serialized form, as its sequence of tokens
to_vec(m) == <<m.tag, m.from, m.body>>

\* whether Message::from_bytes returns Ok
from_bytes_ok(bytes) ==
    /\ Len(bytes) = 3
    /\ bytes[1] \in {"AboutMe", "Message"}
    /\ bytes[2] \in NodeIds

\* Message::from_bytes, where it returns Ok
from_bytes(bytes) == [tag |-> bytes[1], from |-> bytes[2], body |-> bytes[3]]

\* a payload that is no serialized Message
Garbage == <<"{">>

\* payloads a peer can put on the topic
InboundAboutMe ==
    {to_vec(MsgAboutMe(PeerX, n)) : n \in PeerNames} \cup {to_vec(MsgAboutMe(PeerY, Bob))}
InboundMessage == {to_vec(MsgMessage(PeerX, <<"y", "o">>))}
Payloads == InboundAboutMe \cup InboundMessage \cup {Garbage}

\* kinds of Event other than Gossip(Received)
OtherEvents == {"NeighborUp", "Lagged"}

\* what receiver.try_next() can yield: Ok(Some(event)), Ok(None), Err
Event(kind, content) == [kind |-> kind, content |-> content]
StreamEnd == Event("None", Empty)
StreamErr == Event("Err", Empty)

-----------------------------------------------------------------------------
(* Ticket                                                      (l.186-216) *)

\* bounds of the ticket sample: a ticket lists at most MaxNodes addresses
MaxNodes == 2

\* topic ids (TopicId, here one byte wide) and the byte a NodeAddr
\* serializes to
Topics == {7, 200}
NoTopic == 0 - 1
addr_byte(id) == IF id = PeerX THEN 178 ELSE IF id = PeerY THEN 93 ELSE 41
byte_addr(b) == IF b = 178 THEN PeerX ELSE IF b = 93 THEN PeerY ELSE node_id
AddrBytes == {addr_byte(id) : id \in NodeIds}
NoTicket == [topic |-> NoTopic, nodes |-> << >>]

\* struct Ticket { topic, nodes }                              (l.187-190)
Ticket(t, ns) == [topic |-> t, nodes |-> ns]
NodeLists == UNION {[1..n -> {PeerX, PeerY}] : n \in 0..MaxNodes}
Tickets == {Ticket(t, ns) : t \in Topics, ns \in NodeLists}

\* Ticket::to_bytes: the topic, the number of nodes, the nodes  (l.197-199)
Ticket_to_bytes(t) ==
    <<t.topic, Len(t.nodes)>> \o [i \in 1..Len(t.nodes) |-> addr_byte(t.nodes[i])]

\* whether Ticket::from_bytes returns Ok                       (l.193-195)
Ticket_from_bytes_ok(bytes) ==
    /\ Len(bytes) >= 2
    /\ bytes[1] \in Topics
    /\ bytes[2] = Len(bytes) - 2
    /\ \A i \in 3..Len(bytes) : bytes[i] \in AddrBytes

\* Ticket::from_bytes, where it returns Ok                     (l.193-195)
Ticket_from_bytes(bytes) ==
    Ticket(bytes[1], [i \in 1..(Len(bytes) - 2) |-> byte_addr(bytes[i + 2])])

\* the symbols of data_encoding::BASE32_NOPAD, by value
Alphabet ==
    <<"A", "B", "C", "D", "E", "F", "G", "H", "I", "J", "K", "L", "M", "N",
      "O", "P", "Q", "R", "S", "T", "U", "V", "W", "X", "Y", "Z",
      "2", "3", "4", "5", "6", "7">>
LowerLetters ==
    <<"a", "b", "c", "d", "e", "f", "g", "h", "i", "j", "k", "l", "m", "n",
      "o", "p", "q", "r", "s", "t", "u", "v", "w", "x", "y", "z">>

IndexIn(seq, c) == CHOOSE i \in DOMAIN seq : seq[i] = c
Range(seq) == {seq[i] : i \in DOMAIN seq}

\* u8::to_ascii_lowercase / to_ascii_uppercase on one character
lower_char(c) ==
    IF c \in Range(SubSeq(Alphabet, 1, Len(LowerLetters)))
    THEN LowerLetters[IndexIn(Alphabet, c)] ELSE c
upper_char(c) ==
    IF c \in Range(LowerLetters) THEN Alphabet[IndexIn(LowerLetters, c)] ELSE c

\* str::make_ascii_lowercase, str::to_ascii_uppercase         (l.204, l.212)
make_ascii_lowercase(s) == [i \in DOMAIN s |-> lower_char(s[i])]
to_ascii_uppercase(s) == [i \in DOMAIN s |-> upper_char(s[i])]

\* bit i (1 is the most significant) of a value of the given width
BitOf(v, width, i) == (v \div (2 ^ (width - i))) % 2

\* the bits of a byte string, most significant first
BitsOfBytes(bytes) ==
    [k \in 1..(8 * Len(bytes)) |-> BitOf(bytes[((k - 1) \div 8) + 1], 8, ((k - 1) % 8) + 1)]

\* the bits of a sequence of 5-bit symbol values
BitsOfSymbols(vals) ==
    [k \in 1..(5 * Len(vals)) |-> BitOf(vals[((k - 1) \div 5) + 1], 5, ((k - 1) % 5) + 1)]

\* the value of the width bits of bits that start after position off;
\* bits past the end count as zero
RECURSIVE ValueAt(_, _, _)
ValueAt(bits, off, width) ==
    IF width = 0 THEN 0
    ELSE 2 * ValueAt(bits, off, width - 1)
         + (IF off + width <= Len(bits) THEN bits[off + width] ELSE 0)

\* BASE32_NOPAD.encode: 5 bits a symbol, the last symbol zero-filled
BASE32_NOPAD_encode(bytes) ==
    LET bits == BitsOfBytes(bytes)
        n == (Len(bits) + 4) \div 5
    IN  [i \in 1..n |-> Alphabet[ValueAt(bits, 5 * (i - 1), 5) + 1]]

\* whether BASE32_NOPAD.decode returns Ok: every character is a symbol,
\* the length is one an encoding can have and the unused bits are zero
BASE32_NOPAD_decode_ok(s) ==
    /\ \A i \in DOMAIN s : s[i] \in Range(Alphabet)
    /\ (Len(s) % 8) \notin {1, 3, 6}
    /\ LET bits == BitsOfSymbols([i \in DOMAIN s |-> IndexIn(Alphabet, s[i]) - 1])
           used == 8 * (Len(bits) \div 8)
       IN  \A k \in (used + 1)..Len(bits) : bits[k] = 0

\* BASE32_NOPAD.decode, where it returns Ok
BASE32_NOPAD_decode(s) ==
    LET bits == BitsOfSymbols([i \in DOMAIN s |-> IndexIn(Alphabet, s[i]) - 1])
    IN  [j \in 1..(Len(bits) \div 8) |-> ValueAt(bits, 8 * (j - 1), 8)]

\* <Ticket as Display>::fmt                                    (l.202-208)
Ticket_fmt(t) == make_ascii_lowercase(BASE32_NOPAD_encode(Ticket_to_bytes(t)))

\* a decoder that takes the characters as they are
Ticket_from_str_ok_cased(s) ==
    /\ BASE32_NOPAD_decode_ok(s)
    /\ Ticket_from_bytes_ok(BASE32_NOPAD_decode(s))

\* whether Ticket::from_str returns Ok                         (l.210-216)
Ticket_from_str_ok(s) ==
    /\ BASE32_NOPAD_decode_ok(to_ascii_uppercase(s))
    /\ Ticket_from_bytes_ok(BASE32_NOPAD_decode(to_ascii_uppercase(s)))

\* Ticket::from_str, where it returns Ok                       (l.210-216)
Ticket_from_str(s) == Ticket_from_bytes(BASE32_NOPAD_decode(to_ascii_uppercase(s)))

-----------------------------------------------------------------------------
(* Peer directory: HashMap<NodeId, String> behind a Mutex *)

\* a directory that starts with the local node in it
HashMap_with_self == [x \in {node_id} |-> args_name]

\* HashMap::new                                                      (l.96)
HashMap_new == << >>

\* an insert that keeps the entry already present
insert_if_absent(map, k, v) ==
    [x \in DOMAIN map \cup {k} |-> IF x \in DOMAIN map THEN map[x] ELSE v]

\* HashMap::insert                                                  (l.167)
insert(map, k, v) ==
    [x \in DOMAIN map \cup {k} |-> IF x = k THEN v ELSE map[x]]

\* a lookup that falls back to the whole identity
get_or_full(map, from) ==
    IF from \in DOMAIN map THEN map[from] ELSE from

\* HashMap::get followed by map_or_else                         (l.173-175)
get_or_short(map, from) ==
    IF from \in DOMAIN map THEN map[from] ELSE fmt_short(from)

\* HashMap::values, as the multiset of the names it yields          (l.119)
RECURSIVE values_of(_, _)
values_of(map, keys) ==
    IF keys = {} THEN EmptyBag
    ELSE LET k == CHOOSE x \in keys : TRUE
         IN  values_of(map, keys \ {k}) (+) SetToBag({map[k]})

values(map) == values_of(map, DOMAIN map)

\* a lock that is taken without waiting for its owner
lock_nowait(who) == names_lock' = who

\* Mutex::lock: waits until the mutex is free                 (l.117,166,172)
lock(who) == names_lock = "free" /\ names_lock' = who

\* a guard that is leaked instead of dropped
unlock_leak(who) == UNCHANGED names_lock

\* drop of the MutexGuard at the end of its block             (l.120,170,179)
unlock(who) == names_lock' = "free"

-----------------------------------------------------------------------------
(* Terminal output *)

Out(by, kind, who, body, vals) ==
    [by |-> by, kind |-> kind, who |-> who, body |-> body, vals |-> vals]

\* println! / print!: the activity's next piece of terminal output
println(by, kind, who, body, vals) ==
    IF by = "main"
    THEN mainOut' = Append(mainOut, Out(by, kind, who, body, vals)) /\ UNCHANGED subOut
    ELSE subOut' = Append(subOut, Out(by, kind, who, body, vals)) /\ UNCHANGED mainOut

\* print_message                                               (l.144-147)
print_message(by, n, t) == println(by, "msg", n, t, EmptyBag)

-----------------------------------------------------------------------------
(* The process *)

\* main has not returned: the runtime, its tasks and the input thread live
Running == mainPc # "ret"

\* an error that is noted while main goes on
main_err_continue(e) == mainPc' = "echo" /\ mainResult' = e

\* `?` in main: the error is returned from main                 (l.84,93,133,139)
main_err(e) == mainPc' = "ret" /\ mainResult' = e

\* enum Command                                                  (l.24-30)
Open == [kind |-> "Open", ticket |-> Empty]
Join(ticket) == [kind |-> "Join", ticket |-> ticket]

\* the topic of the session the chat is checked in
OpenedTopic == CHOOSE t \in Topics : TRUE

\* no ticket is being printed or parsed
TicketIdle ==
    /\ tk = NoTicket
    /\ tkText = Empty
    /\ tkParsed = [ok |-> FALSE, ticket |-> NoTicket]
    /\ tkPc = "off"

\* the session as it is when main is about to join the topic (l.84), after
\* it was started with `open`
Init ==
    /\ command = Open
    /\ topic = OpenedTopic
    /\ nodes = << >>
    /\ known = {}
    /\ TicketIdle
    /\ args_name \in ArgNames
    /\ mainPc = "join"
    /\ mainResult = "none"
    /\ text = Empty
    /\ subPc = "off"
    /\ subResult = "none"
    /\ cur = NoMessage
    /\ name = Empty
    /\ inPc = "off"
    /\ buffer = Empty
    /\ line_chan = << >>
    /\ names = HashMap_new
    /\ names_lock = "free"
    /\ sent = << >>
    /\ mainOut = << >>
    /\ subOut = << >>
    /\ taken = << >>
    /\ aboutLog = << >>
    /\ typed = 0
    /\ delivered = 0
    /\ yielded = << >>
    /\ typedLog = << >>
    /\ shutdown_called = FALSE

-----------------------------------------------------------------------------
(* main                                                         (l.33-142) *)

\* capacity of the handoff channel: tokio::sync::mpsc::channel(1)   (l.101)
Capacity == 1

\* sender.broadcast(bytes): the payload is handed to the send handle
broadcast(bytes) == sent' = Append(sent, bytes)

\* the name the local echo is printed under                         (l.135)
local_name == IF args_name = NoName THEN <<"y", "o", "u">> ELSE args_name

\* no line is taken as a command
is_command_never(t) == FALSE

\* whether a trimmed line is a command                              (l.110)
is_command(t) == starts_with(t, Slash)

\* Command::Open: a random topic, no nodes                       (l.37-41)
StartOpen ==
    \E t \in Topics :
        /\ mainPc = "start"
        /\ command.kind = "Open"
        /\ topic' = t
        /\ nodes' = << >>
        /\ mainPc' = "bind"
        /\ UNCHANGED <<command, known, ticketVars, args_name, mainResult, text,
                       sent, taken, shutdown_called, subVars, inVars,
                       line_chan, names, names_lock, output>>

\* an undecodable ticket is taken for `open`
StartJoinErrOpens ==
    \E t \in Topics :
        /\ mainPc = "start"
        /\ command.kind = "Join"
        /\ ~Ticket_from_str_ok(command.ticket)
        /\ topic' = t
        /\ nodes' = << >>
        /\ mainPc' = "bind"
        /\ UNCHANGED <<command, known, ticketVars, args_name, mainResult, text,
                       sent, taken, shutdown_called, subVars, inVars,
                       line_chan, names, names_lock, output>>

\* Command::Join: Ticket::from_str(ticket)? returns Ok            (l.42-46)
StartJoin ==
    /\ mainPc = "start"
    /\ command.kind = "Join"
    /\ Ticket_from_str_ok(command.ticket)
    /\ topic' = Ticket_from_str(command.ticket).topic
    /\ nodes' = Ticket_from_str(command.ticket).nodes
    /\ mainPc' = "bind"
    /\ UNCHANGED <<command, known, ticketVars, args_name, mainResult, text,
                   sent, taken, shutdown_called, subVars, inVars,
                   line_chan, names, names_lock, output>>

\* Command::Join: Ticket::from_str(ticket)? returns Err             (l.43)
StartJoinErr ==
    /\ mainPc = "start"
    /\ command.kind = "Join"
    /\ ~Ticket_from_str_ok(command.ticket)
    /\ main_err("TicketError")
    /\ UNCHANGED <<startVars, ticketVars, args_name, text, sent, taken,
                   shutdown_called, subVars, inVars, line_chan, names,
                   names_lock, output>>

\* the endpoint is bound, gossip and router are spawned and the own
\* address is read, each returning Ok                              (l.49-71)
StartBind ==
    /\ mainPc = "bind"
    /\ mainPc' = "connect"
    /\ UNCHANGED <<startVars, ticketVars, args_name, mainResult, text, sent,
                   taken, shutdown_called, subVars, inVars, line_chan, names,
                   names_lock, output>>

\* one of them returns Err                                  (l.52,58,63,67)
StartBindErr ==
    /\ mainPc = "bind"
    /\ main_err("BindError")
    /\ UNCHANGED <<startVars, ticketVars, args_name, text, sent, taken,
                   shutdown_called, subVars, inVars, line_chan, names,
                   names_lock, output>>

\* endpoint.add_node_addr(node)? returns Ok for every node       (l.74-82)
StartConnect ==
    /\ mainPc = "connect"
    /\ known' = {nodes[i] : i \in DOMAIN nodes}
    /\ mainPc' = "join"
    /\ UNCHANGED <<command, topic, nodes, ticketVars, args_name, mainResult,
                   text, sent, taken, shutdown_called, subVars, inVars,
                   line_chan, names, names_lock, output>>

\* endpoint.add_node_addr(node)? returns Err for the k-th node      (l.80)
StartConnectErr ==
    \E k \in DOMAIN nodes :
        /\ mainPc = "connect"
        /\ known' = {nodes[i] : i \in 1..(k - 1)}
        /\ main_err("AddrError")
        /\ UNCHANGED <<command, topic, nodes, ticketVars, args_name, text,
                       sent, taken, shutdown_called, subVars, inVars,
                       line_chan, names, names_lock, output>>

\* subscribe_and_join(topic, node_ids).await? returns Ok             (l.84)
MainJoinOk ==
    /\ mainPc = "join"
    /\ mainPc' = "announce"
    /\ UNCHANGED <<startVars, ticketVars,
                   args_name, mainResult, text, sent, taken, shutdown_called,
                   subVars, inVars, line_chan, names, names_lock, output>>

\* subscribe_and_join(topic, node_ids).await? returns Err            (l.84)
MainJoinErr ==
    /\ mainPc = "join"
    /\ main_err("JoinError")
    /\ UNCHANGED <<startVars, ticketVars,
                   args_name, text, sent, taken, shutdown_called,
                   subVars, inVars, line_chan, names, names_lock, output>>

\* a name is set: the AboutMe is handed to the send handle        (l.88-93)
MainAnnounce ==
    /\ mainPc = "announce"
    /\ args_name # NoName
    /\ broadcast(to_vec(MsgAboutMe(node_id, args_name)))
    /\ mainPc' = "announce_wait"
    /\ UNCHANGED <<startVars, ticketVars,
                   args_name, mainResult, text, taken, shutdown_called,
                   subVars, inVars, line_chan, names, names_lock, output>>

\* without a name, the placeholder is announced
MainNoAnnounceAsYou ==
    /\ mainPc = "announce"
    /\ args_name = NoName
    /\ broadcast(to_vec(MsgAboutMe(node_id, local_name)))
    /\ mainPc' = "announce_wait"
    /\ UNCHANGED <<startVars, ticketVars,
                   args_name, mainResult, text, taken, shutdown_called,
                   subVars, inVars, line_chan, names, names_lock, output>>

\* no name is set: nothing is announced                              (l.88)
MainNoAnnounce ==
    /\ mainPc = "announce"
    /\ args_name = NoName
    /\ mainPc' = "spawn"
    /\ UNCHANGED <<startVars, ticketVars,
                   args_name, mainResult, text, sent, taken, shutdown_called,
                   subVars, inVars, line_chan, names, names_lock, output>>

\* the AboutMe broadcast returns Ok                                  (l.93)
MainAnnounceOk ==
    /\ mainPc = "announce_wait"
    /\ mainPc' = "spawn"
    /\ UNCHANGED <<startVars, ticketVars,
                   args_name, mainResult, text, sent, taken, shutdown_called,
                   subVars, inVars, line_chan, names, names_lock, output>>

\* the AboutMe broadcast returns Err                                 (l.93)
MainAnnounceErr ==
    /\ mainPc = "announce_wait"
    /\ main_err("BroadcastError")
    /\ UNCHANGED <<startVars, ticketVars,
                   args_name, text, sent, taken, shutdown_called,
                   subVars, inVars, line_chan, names, names_lock, output>>

\* the directory and the channel are created, the dispatch task and the
\* input thread are started                                      (l.96-105)
MainSpawn ==
    /\ mainPc = "spawn"
    /\ names' = HashMap_new
    /\ names_lock' = "free"
    /\ subPc' = "next"
    /\ line_chan' = << >>
    /\ inPc' = "read"
    /\ mainPc' = "recv"
    /\ UNCHANGED <<startVars, ticketVars,
                   args_name, mainResult, text, sent, taken, shutdown_called,
                   subResult, cur, name, aboutLog, delivered, yielded, buffer,
                   typed, typedLog, output>>

\* line_rx.recv() yields a line; t is the line trimmed          (l.107-108)
recv_line(t) ==
    /\ line_chan' = Tail(line_chan)
    /\ taken' = Append(taken, Head(line_chan))
    /\ text' = t

\* "/exit": farewell, break                                    (l.112-115)
MainExit ==
    /\ mainPc = "recv"
    /\ line_chan # << >>
    /\ LET t == Trim(Head(line_chan)) IN
        /\ recv_line(t)
        /\ is_command(t) /\ t = CmdExit
        /\ println("main", "leaving", Empty, Empty, EmptyBag)
        /\ mainPc' = "shutdown"
        /\ UNCHANGED <<startVars, ticketVars,
                       args_name, mainResult, sent, shutdown_called,
                       subVars, inVars, names, names_lock>>

\* "/list": go on to lock the directory                        (l.116-117)
MainList ==
    /\ mainPc = "recv"
    /\ line_chan # << >>
    /\ LET t == Trim(Head(line_chan)) IN
        /\ recv_line(t)
        /\ is_command(t) /\ t = CmdList
        /\ mainPc' = "list_lock"
        /\ UNCHANGED <<startVars, ticketVars,
                       args_name, mainResult, sent, shutdown_called,
                       subVars, inVars, names, names_lock, output>>

\* an unknown command that is sent as chat text
MainUnknownSent ==
    /\ mainPc = "recv"
    /\ line_chan # << >>
    /\ LET t == Trim(Head(line_chan)) IN
        /\ recv_line(t)
        /\ is_command(t) /\ t # CmdExit /\ t # CmdList
        /\ broadcast(to_vec(MsgMessage(node_id, t)))
        /\ mainPc' = "bcast"
        /\ UNCHANGED <<startVars, ticketVars,
                       args_name, mainResult, shutdown_called,
                       subVars, inVars, names, names_lock, output>>

\* any other command: "unknown command", continue              (l.121-125)
MainUnknown ==
    /\ mainPc = "recv"
    /\ line_chan # << >>
    /\ LET t == Trim(Head(line_chan)) IN
        /\ recv_line(t)
        /\ is_command(t) /\ t # CmdExit /\ t # CmdList
        /\ println("main", "unknown", Empty, t, EmptyBag)
        /\ mainPc' = "recv"
        /\ UNCHANGED <<startVars, ticketVars,
                       args_name, mainResult, sent, shutdown_called,
                       subVars, inVars, names, names_lock>>

\* chat text: the Message is handed to the send handle         (l.128-133)
MainChat ==
    /\ mainPc = "recv"
    /\ line_chan # << >>
    /\ LET t == Trim(Head(line_chan)) IN
        /\ recv_line(t)
        /\ ~is_command(t)
        /\ broadcast(to_vec(MsgMessage(node_id, t)))
        /\ mainPc' = "bcast"
        /\ UNCHANGED <<startVars, ticketVars,
                       args_name, mainResult, shutdown_called,
                       subVars, inVars, names, names_lock, output>>

\* line_rx.recv() yields None: the input thread dropped line_tx     (l.107)
MainRecvNone ==
    /\ mainPc = "recv"
    /\ line_chan = << >>
    /\ inPc = "ret"
    /\ mainPc' = "shutdown"
    /\ UNCHANGED <<startVars, ticketVars,
                   args_name, mainResult, text, sent, taken, shutdown_called,
                   subVars, inVars, line_chan, names, names_lock, output>>

\* names.lock().unwrap()                                            (l.117)
MainListLock ==
    /\ mainPc = "list_lock"
    /\ lock("main")
    /\ mainPc' = "list_print"
    /\ UNCHANGED <<startVars, ticketVars,
                   args_name, mainResult, text, sent, taken, shutdown_called,
                   subVars, inVars, line_chan, names, output>>

\* println!("user history: ..", names_guard.values())               (l.119)
MainListPrint ==
    /\ mainPc = "list_print"
    /\ println("main", "list", Empty, Empty, values(names))
    /\ mainPc' = "list_unlock"
    /\ UNCHANGED <<startVars, ticketVars,
                   args_name, mainResult, text, sent, taken, shutdown_called,
                   subVars, inVars, line_chan, names, names_lock>>

\* names_guard goes out of scope, continue                     (l.120-125)
MainListUnlock ==
    /\ mainPc = "list_unlock"
    /\ unlock("main")
    /\ mainPc' = "recv"
    /\ UNCHANGED <<startVars, ticketVars,
                   args_name, mainResult, text, sent, taken, shutdown_called,
                   subVars, inVars, line_chan, names, output>>

\* a broadcast after which the echo is left out
MainBroadcastOkNoEcho ==
    /\ mainPc = "bcast"
    /\ mainPc' = "recv"
    /\ UNCHANGED <<startVars, ticketVars,
                   args_name, mainResult, text, sent, taken, shutdown_called,
                   subVars, inVars, line_chan, names, names_lock, output>>

\* the Message broadcast returns Ok                                 (l.133)
MainBroadcastOk ==
    /\ mainPc = "bcast"
    /\ mainPc' = "echo"
    /\ UNCHANGED <<startVars, ticketVars,
                   args_name, mainResult, text, sent, taken, shutdown_called,
                   subVars, inVars, line_chan, names, names_lock, output>>

\* a rejected broadcast that only leaves the loop, as /exit does
MainBroadcastErrBreak ==
    /\ mainPc = "bcast"
    /\ mainPc' = "shutdown"
    /\ UNCHANGED <<startVars, ticketVars,
                   args_name, mainResult, text, sent, taken, shutdown_called,
                   subVars, inVars, line_chan, names, names_lock, output>>

\* the Message broadcast returns Err                                (l.133)
MainBroadcastErr ==
    /\ mainPc = "bcast"
    /\ main_err("BroadcastError")
    /\ UNCHANGED <<startVars, ticketVars,
                   args_name, text, sent, taken, shutdown_called,
                   subVars, inVars, line_chan, names, names_lock, output>>

\* the local echo                                              (l.135-136)
MainEcho ==
    /\ mainPc = "echo"
    /\ print_message("main", local_name, text)
    /\ mainPc' = "recv"
    /\ UNCHANGED <<startVars, ticketVars,
                   args_name, mainResult, text, sent, taken, shutdown_called,
                   subVars, inVars, line_chan, names, names_lock>>

\* router_builder.shutdown().await?, then Ok(())               (l.139-141)
MainShutdown ==
    /\ mainPc = "shutdown"
    /\ shutdown_called' = TRUE
    /\ \E r \in {"Ok", "ShutdownError"} : main_err(r)
    /\ UNCHANGED <<startVars, ticketVars, args_name, text, sent, taken,
                   subVars, inVars, line_chan, names, names_lock, output>>

-----------------------------------------------------------------------------
(* subscribe_loop                                              (l.160-184) *)

\* a dispatch that notes the error and goes on with the next event
sub_err_skip(e) == subPc' = "next" /\ subResult' = e

\* `?` in subscribe_loop: the error is returned from the task; the
\* JoinHandle of tokio::spawn was dropped at l.99, nobody receives it
sub_err(e) == subPc' = "ret" /\ subResult' = e

\* receiver.try_next().await is answered                            (l.162)
try_next(item) ==
    /\ Running
    /\ subPc = "next"
    /\ typed + delivered < MaxInputs
    /\ delivered' = delivered + 1
    /\ yielded' = Append(yielded, item)

\* an error of the receive stream that ends main as well
SubRecvErrFatal ==
    /\ try_next(StreamErr)
    /\ sub_err("RecvError")
    /\ mainPc' = "ret"
    /\ mainResult' = "RecvError"
    /\ UNCHANGED <<startVars, ticketVars,
                   args_name, text, sent, taken, shutdown_called, inVars,
                   cur, name, aboutLog, line_chan, names, names_lock, output>>

\* try_next yields Err: `?` returns it                              (l.162)
SubRecvErr ==
    /\ try_next(StreamErr)
    /\ sub_err("RecvError")
    /\ UNCHANGED <<startVars, ticketVars,
                   args_name, mainVars, inVars, cur, name, aboutLog,
                   line_chan, names, names_lock, output>>

\* try_next yields Ok(None): the loop ends, Ok(())             (l.162,183)
SubRecvEnd ==
    /\ try_next(StreamEnd)
    /\ sub_err("Ok")
    /\ UNCHANGED <<startVars, ticketVars,
                   args_name, mainVars, inVars, cur, name, aboutLog,
                   line_chan, names, names_lock, output>>

\* an event of another kind that rings the bell
SubRecvOtherBell ==
    \E kind \in OtherEvents :
        /\ try_next(Event(kind, Empty))
        /\ println("sub", "bell", Empty, Empty, EmptyBag)
        /\ UNCHANGED <<startVars, ticketVars,
                       args_name, mainVars, inVars, subPc, subResult, cur,
                       name, aboutLog, line_chan, names, names_lock>>

\* an event that is not Gossip(Received): nothing happens           (l.163)
SubRecvOther ==
    \E kind \in OtherEvents :
        /\ try_next(Event(kind, Empty))
        /\ UNCHANGED <<startVars, ticketVars,
                       args_name, mainVars, inVars, subPc, subResult, cur,
                       name, aboutLog, line_chan, names, names_lock, output>>

\* Received, and Message::from_bytes fails: `?` returns the error   (l.164)
SubRecvUndecodable ==
    \E p \in Payloads :
        /\ try_next(Event("Received", p))
        /\ ~from_bytes_ok(p)
        /\ sub_err("DecodeError")
        /\ UNCHANGED <<startVars, ticketVars,
                       args_name, mainVars, inVars, cur, name, aboutLog,
                       line_chan, names, names_lock, output>>

\* Received, decoded as AboutMe                                (l.164-165)
SubRecvAboutMe ==
    \E p \in Payloads :
        /\ try_next(Event("Received", p))
        /\ from_bytes_ok(p) /\ from_bytes(p).tag = "AboutMe"
        /\ cur' = from_bytes(p)
        /\ subPc' = "about_lock"
        /\ UNCHANGED <<startVars, ticketVars,
                       args_name, mainVars, inVars, subResult, name, aboutLog,
                       line_chan, names, names_lock, output>>

\* a Message that the dispatch task passes over
SubRecvMessageSkipped ==
    \E p \in Payloads :
        /\ try_next(Event("Received", p))
        /\ from_bytes_ok(p) /\ from_bytes(p).tag = "Message"
        /\ UNCHANGED <<startVars, ticketVars,
                       args_name, mainVars, inVars, subPc, subResult, cur,
                       name, aboutLog, line_chan, names, names_lock, output>>

\* Received, decoded as Message                                (l.164,171)
SubRecvMessage ==
    \E p \in Payloads :
        /\ try_next(Event("Received", p))
        /\ from_bytes_ok(p) /\ from_bytes(p).tag = "Message"
        /\ cur' = from_bytes(p)
        /\ subPc' = "msg_lock"
        /\ UNCHANGED <<startVars, ticketVars,
                       args_name, mainVars, inVars, subResult, name, aboutLog,
                       line_chan, names, names_lock, output>>

\* names.lock().unwrap()                                            (l.166)
SubAboutLock ==
    /\ Running
    /\ subPc = "about_lock"
    /\ lock("sub")
    /\ subPc' = "about_insert"
    /\ UNCHANGED <<startVars, ticketVars,
                   args_name, mainVars, inVars, subResult, cur, name, aboutLog,
                   delivered, yielded, line_chan, names, output>>

\* names_guard.insert(from, name.clone())                           (l.167)
SubAboutInsert ==
    /\ Running
    /\ subPc = "about_insert"
    /\ names' = insert(names, cur.from, cur.body)
    /\ aboutLog' = Append(aboutLog, cur)
    /\ subPc' = "about_print"
    /\ UNCHANGED <<startVars, ticketVars,
                   args_name, mainVars, inVars, subResult, cur, name,
                   delivered, yielded, line_chan, names_lock, output>>

\* println!("-> {} joined chat as {}", from.fmt_short(), name)      (l.168)
SubAboutPrint ==
    /\ Running
    /\ subPc = "about_print"
    /\ println("sub", "joined", fmt_short(cur.from), cur.body, EmptyBag)
    /\ subPc' = "about_bell"
    /\ UNCHANGED <<startVars, ticketVars,
                   args_name, mainVars, inVars, subResult, cur, name, aboutLog,
                   delivered, yielded, line_chan, names, names_lock>>

\* print!("\x07"), then names_guard goes out of scope          (l.169-170)
SubAboutBell ==
    /\ Running
    /\ subPc = "about_bell"
    /\ println("sub", "bell", Empty, Empty, EmptyBag)
    /\ unlock("sub")
    /\ cur' = NoMessage
    /\ name' = Empty
    /\ subPc' = "next"
    /\ UNCHANGED <<startVars, ticketVars,
                   args_name, mainVars, inVars, subResult, aboutLog,
                   delivered, yielded, line_chan, names>>

\* names.lock().unwrap()                                            (l.172)
SubMsgLock ==
    /\ Running
    /\ subPc = "msg_lock"
    /\ lock("sub")
    /\ subPc' = "msg_get"
    /\ UNCHANGED <<startVars, ticketVars,
                   args_name, mainVars, inVars, subResult, cur, name, aboutLog,
                   delivered, yielded, line_chan, names, output>>

\* names_guard.get(&from).map_or_else(|| from.fmt_short(), ..) (l.173-175)
SubMsgGet ==
    /\ Running
    /\ subPc = "msg_get"
    /\ name' = get_or_short(names, cur.from)
    /\ subPc' = "msg_print"
    /\ UNCHANGED <<startVars, ticketVars,
                   args_name, mainVars, inVars, subResult, cur, aboutLog,
                   delivered, yielded, line_chan, names, names_lock, output>>

\* print_message(&name, &text)                                      (l.177)
SubMsgPrint ==
    /\ Running
    /\ subPc = "msg_print"
    /\ print_message("sub", name, cur.body)
    /\ subPc' = "msg_bell"
    /\ UNCHANGED <<startVars, ticketVars,
                   args_name, mainVars, inVars, subResult, cur, name, aboutLog,
                   delivered, yielded, line_chan, names, names_lock>>

\* print!("\x07"), then names_guard goes out of scope          (l.178-179)
SubMsgBell ==
    /\ Running
    /\ subPc = "msg_bell"
    /\ println("sub", "bell", Empty, Empty, EmptyBag)
    /\ unlock("sub")
    /\ cur' = NoMessage
    /\ name' = Empty
    /\ subPc' = "next"
    /\ UNCHANGED <<startVars, ticketVars,
                   args_name, mainVars, inVars, subResult, aboutLog,
                   delivered, yielded, line_chan, names>>

-----------------------------------------------------------------------------
(* input_loop                                                  (l.149-158) *)

\* read_line returns Ok: it appended a line to the buffer, or nothing at
\* end of input                                                     (l.154)
InRead ==
    \E l \in Lines :
        /\ Running
        /\ inPc = "read"
        /\ typed + delivered < MaxInputs
        /\ buffer' = buffer \o l
        /\ typed' = typed + 1
        /\ typedLog' = Append(typedLog, l)
        /\ inPc' = "send"
        /\ UNCHANGED <<startVars, ticketVars,
                       args_name, mainVars, subVars, line_chan, names,
                       names_lock, output>>

\* read_line returns Err: `?` returns it, line_tx is dropped        (l.154)
InReadErr ==
    /\ Running
    /\ inPc = "read"
    /\ inPc' = "ret"
    /\ UNCHANGED <<startVars, ticketVars,
                   args_name, mainVars, subVars, buffer, typed, typedLog, line_chan,
                   names, names_lock, output>>

\* a send into a channel that always has room
InSendNoWait ==
    /\ Running
    /\ inPc = "send"
    /\ line_chan' = Append(line_chan, buffer)
    /\ buffer' = Empty
    /\ inPc' = "read"
    /\ UNCHANGED <<startVars, ticketVars,
                   args_name, mainVars, subVars, typed, typedLog, names, names_lock,
                   output>>

\* a send after which the buffer keeps the line
InSendNoClear ==
    /\ Running
    /\ inPc = "send"
    /\ Len(line_chan) < Capacity
    /\ line_chan' = Append(line_chan, buffer)
    /\ inPc' = "read"
    /\ UNCHANGED <<startVars, ticketVars,
                   args_name, mainVars, subVars, buffer, typed, typedLog, names,
                   names_lock, output>>

\* blocking_send waits for room, sends; buffer.clear()         (l.155-156)
InSend ==
    /\ Running
    /\ inPc = "send"
    /\ Len(line_chan) < Capacity
    /\ line_chan' = Append(line_chan, buffer)
    /\ buffer' = Empty
    /\ inPc' = "read"
    /\ UNCHANGED <<startVars, ticketVars,
                   args_name, mainVars, subVars, typed, typedLog, names, names_lock,
                   output>>

-----------------------------------------------------------------------------
(* a ticket printed, typed back and parsed                     (l.202-216) *)

sessionVars == <<args_name, mainVars, subVars, inVars, line_chan, names,
                 names_lock, output, startVars>>

\* format!("{ticket}"): the text of the ticket                (l.72, l.202)
TicketDisplay ==
    /\ tkPc = "fmt"
    /\ tkText' = Ticket_fmt(tk)
    /\ tkPc' = "text"
    /\ UNCHANGED <<sessionVars, tk, tkParsed>>

\* the text with the letters at the positions in up in upper case and the
\* others in lower case
recase(s, up) ==
    [i \in DOMAIN s |-> IF i \in up THEN upper_char(s[i]) ELSE lower_char(s[i])]

\* the text is typed back, its letters in any case
TicketRetype ==
    \E up \in SUBSET (DOMAIN tkText) :
        /\ tkPc = "text"
        /\ tkText' = recase(tkText, up)
        /\ tkPc' = "parse"
        /\ UNCHANGED <<sessionVars, tk, tkParsed>>

\* Ticket::from_str(&text)                                     (l.210-216)
TicketFromStr ==
    /\ tkPc = "parse"
    /\ tkParsed' = IF Ticket_from_str_ok(tkText)
                   THEN [ok |-> TRUE, ticket |-> Ticket_from_str(tkText)]
                   ELSE [ok |-> FALSE, ticket |-> NoTicket]
    /\ tkPc' = "done"
    /\ UNCHANGED <<sessionVars, tk, tkText>>

-----------------------------------------------------------------------------

Next ==
    \/ MainJoinOk \/ MainJoinErr
    \/ MainAnnounce \/ MainNoAnnounce \/ MainAnnounceOk \/ MainAnnounceErr
    \/ MainSpawn
    \/ MainExit \/ MainList \/ MainUnknown \/ MainChat \/ MainRecvNone
    \/ MainListLock \/ MainListPrint \/ MainListUnlock
    \/ MainBroadcastOk \/ MainBroadcastErr \/ MainEcho
    \/ MainShutdown
    \/ SubRecvErr \/ SubRecvEnd \/ SubRecvOther \/ SubRecvUndecodable
    \/ SubRecvAboutMe \/ SubRecvMessage
    \/ SubAboutLock \/ SubAboutInsert \/ SubAboutPrint \/ SubAboutBell
    \/ SubMsgLock \/ SubMsgGet \/ SubMsgPrint \/ SubMsgBell
    \/ InRead \/ InReadErr \/ InSend

Spec == Init /\ [][Next]_vars

-----------------------------------------------------------------------------
(* The program from its start                                   (l.33-142) *)

\* number of inputs the environment supplies in a run that is followed
\* from the start of the program
MaxStartInputs == 1

\* ticket texts a user can pass to `join`
GoodTexts ==
    {Ticket_fmt(Ticket(OpenedTopic, << >>)),
     to_ascii_uppercase(Ticket_fmt(Ticket(OpenedTopic, <<PeerX>>))),
     Ticket_fmt(Ticket(OpenedTopic, <<PeerX, PeerY>>))}
BadSymbol == <<"a", "4", "1", "a">>
BadLength == <<"a", "4", "a">>
BadTrailing == <<"a", "4", "a", "b">>
BadPayload == make_ascii_lowercase(BASE32_NOPAD_encode(<<OpenedTopic, 1>>))
BadTexts == {BadSymbol, BadLength, BadTrailing, BadPayload, Empty}
Commands == {Open} \cup {Join(s) : s \in GoodTexts \cup BadTexts}

\* the process after Args::parse()                                  (l.34)
InitStart ==
    /\ command \in Commands
    /\ topic = NoTopic
    /\ nodes = << >>
    /\ known = {}
    /\ TicketIdle
    /\ args_name \in ArgNames
    /\ mainPc = "start"
    /\ mainResult = "none"
    /\ text = Empty
    /\ subPc = "off"
    /\ subResult = "none"
    /\ cur = NoMessage
    /\ name = Empty
    /\ inPc = "off"
    /\ buffer = Empty
    /\ line_chan = << >>
    /\ names = HashMap_new
    /\ names_lock = "free"
    /\ sent = << >>
    /\ mainOut = << >>
    /\ subOut = << >>
    /\ taken = << >>
    /\ aboutLog = << >>
    /\ typed = 0
    /\ delivered = 0
    /\ yielded = << >>
    /\ typedLog = << >>
    /\ shutdown_called = FALSE

NextStart ==
    \/ StartOpen \/ StartJoin \/ StartJoinErr
    \/ StartBind \/ StartBindErr
    \/ StartConnect \/ StartConnectErr
    \/ (Next /\ typed' + delivered' <= MaxStartInputs)

SpecStart == InitStart /\ [][NextStart]_vars

-----------------------------------------------------------------------------
(* Ticket texts                                                (l.202-216) *)

\* a ticket of the sample, about to be printed
InitTicket ==
    /\ tk \in Tickets
    /\ tkText = Empty
    /\ tkParsed = [ok |-> FALSE, ticket |-> NoTicket]
    /\ tkPc = "fmt"
    /\ command = Open
    /\ topic = NoTopic
    /\ nodes = << >>
    /\ known = {}
    /\ args_name = NoName
    /\ mainPc = "start"
    /\ mainResult = "none"
    /\ text = Empty
    /\ subPc = "off"
    /\ subResult = "none"
    /\ cur = NoMessage
    /\ name = Empty
    /\ inPc = "off"
    /\ buffer = Empty
    /\ line_chan = << >>
    /\ names = HashMap_new
    /\ names_lock = "free"
    /\ sent = << >>
    /\ mainOut = << >>
    /\ subOut = << >>
    /\ taken = << >>
    /\ aboutLog = << >>
    /\ typed = 0
    /\ delivered = 0
    /\ yielded = << >>
    /\ typedLog = << >>
    /\ shutdown_called = FALSE

NextTicket == TicketDisplay \/ TicketRetype \/ TicketFromStr

SpecTicket == InitTicket /\ [][NextTicket]_vars

-----------------------------------------------------------------------------
(* Vocabulary of the properties *)

ActivePcs == {"recv", "list_lock", "list_print", "list_unlock", "bcast", "echo"}

\* the trimmed texts of the lines main took so far
TakenTexts == [i \in DOMAIN taken |-> Trim(taken[i])]

\* main took the line /exit
ExitTaken == \E i \in DOMAIN taken : TakenTexts[i] = CmdExit

IsChatPayload(b) == b[1] = "Message"
IsEcho(o) == o.kind = "msg"
IsList(o) == o.kind = "list"
StartsWithSlash(l) == l # Empty /\ Head(l) = "/"

\* the chat Messages handed to the send handle, in order
ChatSent == SelectSeq(sent, IsChatPayload)

\* the local echoes printed by main, in order
Echoes == SelectSeq(mainOut, IsEcho)

\* lines read from the terminal and not yet taken by main
InFlight == typed - Len(taken)

\* the identities the AboutMe messages dispatched so far came from
AboutFroms == {aboutLog[i].from : i \in DOMAIN aboutLog}

\* the name carried by the last dispatched AboutMe from id
LastAnnounced(id) ==
    LET idx == {i \in DOMAIN aboutLog : aboutLog[i].from = id}
        last == CHOOSE i \in idx : \A j \in idx : j <= i
    IN  aboutLog[last].body

\* the directory after the first k dispatched AboutMe messages
RECURSIVE Replay(_)
Replay(k) ==
    IF k = 0 THEN << >>
    ELSE insert(Replay(k - 1), aboutLog[k].from, aboutLog[k].body)

SubCritical == {"about_insert", "about_print", "about_bell",
                "msg_get", "msg_print", "msg_bell"}
MainCritical == {"list_print", "list_unlock"}

-----------------------------------------------------------------------------
(* C1 *)

\* C1 as stated: once the dispatch task has ended on a payload that fails
\* Message decoding, the session is over, so nothing is handed to the send
\* handle any more.
C1_NoBroadcastAfterDecodeError ==
    [][subResult = "DecodeError" => sent' = sent]_vars

\* C1 amended: a payload that fails Message decoding ends the dispatch task
\* at once and for good (no later event is taken, the directory and the
\* dispatch output never change again); the step does not move main, which
\* stays in its loop.
C1_DecodeErrorEndsDispatchOnly ==
    [][ /\ subResult' = "DecodeError" => subPc' = "ret"
        /\ (subResult = "none" /\ subResult' = "DecodeError")
              => (mainPc' = mainPc /\ mainResult' = mainResult)
        /\ subResult = "DecodeError"
              => (subResult' = subResult /\ delivered' = delivered
                  /\ names' = names /\ subOut' = subOut) ]_vars

\* the dispatch task ended on a decode error and main is inside a broadcast
C1_Witness ==
    /\ subResult = "DecodeError"
    /\ mainPc = "bcast"
    /\ delivered = 1

-----------------------------------------------------------------------------
(* C2 *)

\* C2: from the step in which main takes /exit on, nothing is handed to the
\* send handle (not for that line, not for any later one) and main is out
\* of the Active loop.
C2_ExitBroadcastsNothing ==
    [][ExitTaken' => (sent' = sent /\ mainPc' \notin ActivePcs)]_vars

\* /exit was taken while one line waits in the channel and another one is
\* blocked in the input thread
C2_Witness ==
    /\ ExitTaken
    /\ line_chan # << >>
    /\ inPc = "send"

-----------------------------------------------------------------------------
(* C3 *)

\* C3 as stated: the router shutdown is called only when the session ends
\* through /exit.
C3_ShutdownOnlyOnExit == shutdown_called => ExitTaken

\* C3 amended: the router shutdown is called only after the main loop has
\* ended, through /exit or through the handoff channel closing when the
\* input thread is lost; after a failed join or a failed broadcast it is
\* never called.
C3_ShutdownOnLoopEnd ==
    /\ shutdown_called => (ExitTaken \/ (inPc = "ret" /\ line_chan = << >>))
    /\ mainResult \in {"BroadcastError", "JoinError"} => ~shutdown_called
    /\ shutdown_called => mainResult \in {"Ok", "ShutdownError"}

\* the shutdown was called without /exit, after the input thread was lost
C3_Witness ==
    /\ shutdown_called
    /\ ~ExitTaken
    /\ inPc = "ret"

-----------------------------------------------------------------------------
(* C4 *)

\* C4: a rejected broadcast ends the session at that point: main has
\* returned, nothing changes afterwards, the rejected chat line is not
\* echoed, and a rejected announcement ends it before anything is started.
C4_BroadcastErrorIsFatal ==
    [][ /\ mainResult' = "BroadcastError"
           => /\ mainPc' = "ret"
              /\ mainOut' = mainOut
              /\ IF taken' = << >>
                 THEN Len(sent') = 1 /\ subPc' = "off" /\ inPc' = "off"
                 ELSE Len(Echoes') = Len(ChatSent') - 1
        /\ mainResult = "BroadcastError" => UNCHANGED vars ]_vars

\* a chat broadcast was rejected while a further line was already pending
C4_Witness ==
    /\ mainResult = "BroadcastError"
    /\ taken # << >>
    /\ line_chan # << >>

-----------------------------------------------------------------------------
(* C5 *)

\* C5 as stated: the lines taken that do not start with '/' are exactly the
\* lines for which a Message (carrying the line's text, trimmed) was handed
\* to the send handle, one Message each, in order.
C5_EveryNonSlashLineIsSent ==
    LET NonSlash(l) == ~StartsWithSlash(l)
        chat == SelectSeq(taken, NonSlash)
    IN  ChatSent = [i \in DOMAIN chat |-> to_vec(MsgMessage(node_id, Trim(chat[i])))]

\* C5 amended: for every line taken whose text after trimming surrounding
\* white space does not start with '/', exactly one Message carrying the
\* trimmed text is handed to the send handle; once that broadcast call has
\* returned successfully the trimmed text is echoed exactly once, under the
\* configured name or under "you" when none was configured, and never
\* before the call has returned.
C5_ChatLineSentOnceThenEchoed ==
    LET NotCommand(t) == ~(t # Empty /\ Head(t) = "/")
        chat == SelectSeq(TakenTexts, NotCommand)
        unreturned ==
            IF \/ mainPc = "bcast"
               \/ mainPc = "echo"
               \/ (mainResult = "BroadcastError" /\ taken # << >>)
            THEN 1 ELSE 0
        shown == IF args_name = NoName THEN <<"y", "o", "u">> ELSE args_name
    IN  /\ ChatSent = [i \in DOMAIN chat |-> <<"Message", node_id, chat[i]>>]
        /\ Len(Echoes) = Len(chat) - unreturned
        /\ mainPc = "bcast" => Len(Echoes) < Len(ChatSent)
        /\ \A i \in DOMAIN Echoes :
              /\ Echoes[i].who = shown
              /\ Echoes[i].body = chat[i]

\* with no name configured, a line with white space before its '/' was taken
\* as a command and a chat line was sent and echoed under the placeholder
C5_Witness ==
    /\ args_name = NoName
    /\ \E i \in DOMAIN taken : taken[i] = LineFoo
    /\ \E i \in DOMAIN taken : taken[i] = LineHi
    /\ Len(Echoes) = 1
    /\ Len(ChatSent) = 1

-----------------------------------------------------------------------------
(* C6 *)

\* C6 as stated: at most one line read from the terminal is in flight.
C6_AtMostOneLineInFlight == InFlight <= 1

\* C6 amended: the channel never holds more than one pending line; the
\* input thread reads the next line first and blocks afterwards, in the
\* send, while the channel is full, so at most two lines are in flight: one
\* in the channel and one held by the blocked input thread.
C6_AtMostTwoLinesInFlight ==
    /\ Len(line_chan) <= 1
    /\ InFlight <= 2
    /\ InFlight = Len(line_chan) + (IF inPc = "send" THEN 1 ELSE 0)
    /\ InFlight = 2 => (inPc = "send" /\ ~ENABLED InSend)

\* main is inside a broadcast call while two lines are in flight
C6_Witness ==
    /\ mainPc = "bcast"
    /\ InFlight = 2

-----------------------------------------------------------------------------
(* C7 *)

\* C7 as stated: neither activity is at a terminal output, a broadcast or a
\* wait while it holds the directory lock.
C7_NoIoUnderLock ==
    /\ names_lock = "sub"
          => subPc \notin {"next", "about_print", "about_bell", "msg_print", "msg_bell"}
    /\ names_lock = "main"
          => mainPc \notin {"recv", "bcast", "echo", "shutdown", "list_print"}

\* C7 amended: the lock is never held across a broadcast or a wait (for a
\* network event, an input line, the return of a broadcast, the shutdown):
\* each activity takes it after its wait and releases it before the next
\* one.  It is held during the terminal output that follows the map
\* operation: the join notice or chat line and the bell in the dispatch
\* task, the /list line in main.
C7_NoWaitUnderLock ==
    /\ names_lock = "sub" <=> subPc \in SubCritical
    /\ names_lock = "main" <=> mainPc \in MainCritical
    /\ subPc \in {"about_print", "about_bell", "msg_print", "msg_bell"}
          => names_lock = "sub"
    /\ mainPc = "list_print" => names_lock = "main"

\* the dispatch task is about to print the join notice under the lock while
\* main waits for the lock to serve /list
C7_Witness ==
    /\ names_lock = "sub"
    /\ subPc = "about_print"
    /\ mainPc = "list_lock"

-----------------------------------------------------------------------------
(* C8 *)

\* C8: the directory operations exclude one another (the dispatch task and
\* main are never both between taking and releasing the lock), every /list
\* snapshot is the directory as it was after a whole number of records, and
\* every record made so far is present (none is lost).
C8_DirectoryOperationsAtomic ==
    /\ ~(subPc \in SubCritical /\ mainPc \in MainCritical)
    /\ \A i \in DOMAIN mainOut :
          IsList(mainOut[i])
             => \E k \in 0 .. Len(aboutLog) : mainOut[i].vals = values(Replay(k))
    /\ \A i \in DOMAIN aboutLog : aboutLog[i].from \in DOMAIN names
    /\ Cardinality(DOMAIN names) = Cardinality(AboutFroms)

\* a /list snapshot taken between the records of two distinct identities
\* shows the first one alone, and both are present afterwards
C8_Witness ==
    /\ \E i \in DOMAIN mainOut :
          IsList(mainOut[i]) /\ mainOut[i].vals = SetToBag({Carol})
    /\ DOMAIN names = {PeerX, PeerY}

-----------------------------------------------------------------------------
(* C9 *)

\* C9: the directory holds, for each identity, the one name carried by the
\* most recently dispatched AboutMe from it, and a Message from an announced
\* identity is rendered under that name.
C9_LatestNameWins ==
    /\ \A id \in DOMAIN names : names[id] = LastAnnounced(id)
    /\ (subPc = "msg_bell" /\ cur.from \in AboutFroms)
          => subOut[Len(subOut)] =
                Out("sub", "msg", LastAnnounced(cur.from), cur.body, EmptyBag)

\* PeerX announced itself as bob and then as carol, and its Message was
\* rendered
C9_Witness ==
    /\ aboutLog = <<MsgAboutMe(PeerX, Bob), MsgAboutMe(PeerX, Carol)>>
    /\ subPc = "msg_bell"
    /\ cur.from = PeerX

-----------------------------------------------------------------------------
(* C10 *)

\* C10: the directory starts empty; its keys are exactly the identities of
\* the AboutMe messages dispatched so far; it changes only in the dispatch
\* of an inbound AboutMe; no key is ever removed; handing the local
\* AboutMe or a chat Message to the send handle leaves it unchanged; /list
\* after announcing alice and receiving AboutMe{PeerX, bob} shows bob alone.
C10_DirectoryOnlyFromInboundAboutMe ==
    /\ [](/\ DOMAIN names = AboutFroms
          /\ (subPc = "off" => names = << >>)
          /\ (/\ args_name = Alice
              /\ aboutLog = <<MsgAboutMe(PeerX, Bob)>>
              /\ mainPc = "list_unlock")
                => mainOut[Len(mainOut)].vals = SetToBag({Bob}))
    /\ [][ /\ DOMAIN names \subseteq DOMAIN names'
           /\ names' # names
                 => (subPc = "about_insert" /\ cur.tag = "AboutMe"
                     /\ aboutLog' = Append(aboutLog, cur))
           /\ sent' # sent => names' = names ]_vars

\* alice was announced, AboutMe{PeerX, bob} was dispatched and /list printed
C10_Witness ==
    /\ args_name = Alice
    /\ sent # << >>
    /\ aboutLog = <<MsgAboutMe(PeerX, Bob)>>
    /\ mainPc = "list_unlock"
    /\ mainOut[Len(mainOut)].vals = SetToBag({Bob})

-----------------------------------------------------------------------------
(* C11 *)

MsgPcs == {"msg_lock", "msg_get", "msg_print", "msg_bell"}

\* C11: a Message from an identity no AboutMe was dispatched for is rendered
\* under the first ShortLen digits of the identity; handling it leaves the
\* directory unchanged and the dispatch task running: it goes on to wait
\* for the next event.
C11_UnknownSenderFallback ==
    [][ /\ (subPc' = "msg_bell" /\ cur'.from \notin AboutFroms')
            => /\ cur'.from \notin DOMAIN names'
               /\ subOut'[Len(subOut')] =
                     Out("sub", "msg", SubSeq(cur'.from, 1, ShortLen), cur'.body, EmptyBag)
        /\ subPc \in MsgPcs
            => /\ names' = names
               /\ subResult' = "none"
               /\ subPc' \in MsgPcs \cup {"next"} ]_vars

\* the Message of the never announced PeerX was rendered under "b2" and the
\* dispatch task waits for the next event
C11_Witness ==
    /\ aboutLog = << >>
    /\ subPc = "next"
    /\ subResult = "none"
    /\ Len(subOut) = 2
    /\ subOut[1] = Out("sub", "msg", <<"b", "2">>, <<"y", "o">>, EmptyBag)

-----------------------------------------------------------------------------
(* C12 *)

IsAboutPayload(b) == b[1] = "AboutMe"

\* the AboutMe payloads handed to the send handle, in order
AboutSent == SelectSeq(sent, IsAboutPayload)

\* the session is Active or was: the dispatch task or the input thread was
\* started, a line was read or a chat Message was handed to the send handle
Started ==
    \/ subPc # "off" \/ inPc # "off" \/ typed > 0 \/ delivered > 0
    \/ ChatSent # << >> \/ mainPc \in ActivePcs

\* C12: with a display name, exactly one AboutMe{local identity, name} is
\* handed to the send handle: not before the topic join has returned, and
\* it is the first payload and its broadcast has returned before the
\* session is Active; without a display name no AboutMe is ever handed.
C12_AnnounceOnceBeforeActive ==
    /\ args_name = NoName => AboutSent = << >>
    /\ args_name # NoName =>
          /\ mainPc \in {"join", "announce"} => sent = << >>
          /\ Len(AboutSent) <= 1
          /\ AboutSent # << >> => sent[1] = <<"AboutMe", node_id, args_name>>
          /\ mainPc = "announce_wait" => (~Started /\ Len(sent) = 1)
          /\ Started => (Len(AboutSent) = 1 /\ sent[1] = AboutSent[1])

\* alice was announced first, the session is Active and main is inside the
\* broadcast of a chat Message
C12_Witness ==
    /\ args_name = Alice
    /\ mainPc = "bcast"
    /\ Len(sent) = 2
    /\ sent[1] = <<"AboutMe", node_id, Alice>>
    /\ subPc # "off"

-----------------------------------------------------------------------------
(* C13 *)

\* C13 as stated: the session leaves Active only on a processed /exit or on
\* a transport error (a failed broadcast, an error of the receive stream).
C13_ActiveEndsOnlyOnExitOrTransportError ==
    [][ (mainPc \in ActivePcs /\ mainPc' \notin ActivePcs)
           => \/ ExitTaken'
              \/ mainResult' = "BroadcastError"
              \/ subResult = "RecvError" ]_vars

\* C13 amended: the session leaves Active in exactly three ways: in the
\* step that takes /exit, in the step in which a chat broadcast returns its
\* error, and at a recv of main when the handoff channel is closed and empty
\* because the input thread was lost.  The end of the dispatch task, by an
\* error of the receive stream or otherwise, never moves main: the session
\* stays Active.
C13_ActiveEndsOnExitSendErrorOrInputLoss ==
    [][ /\ (mainPc \in ActivePcs /\ mainPc' \notin ActivePcs)
            => \/ (mainPc' = "shutdown" /\ ExitTaken' /\ ~ExitTaken)
               \/ (mainPc' = "shutdown" /\ mainPc = "recv"
                   /\ inPc = "ret" /\ line_chan = << >>)
               \/ (mainPc' = "ret" /\ mainPc = "bcast"
                   /\ mainResult' = "BroadcastError")
        /\ ExitTaken' => mainPc' \notin ActivePcs
        /\ mainResult' = "BroadcastError" => mainPc' \notin ActivePcs
        /\ subResult' # subResult
            => (mainPc' = mainPc /\ mainResult' = mainResult) ]_vars

\* the receive stream returned an error, and main went on to broadcast a
\* chat line and is about to echo it
C13_Witness ==
    /\ subResult = "RecvError"
    /\ yielded = <<StreamErr>>
    /\ mainPc = "echo"

-----------------------------------------------------------------------------
(* C14 *)

ListPcs == {"list_lock", "list_print", "list_unlock"}

\* main takes a line in this step
TakesLine == Len(taken') = Len(taken) + 1

\* the trimmed text is a command other than /exit
LocalCommand(t) == t # Empty /\ Head(t) = "/" /\ t # CmdExit

\* C14: a line whose text starts with '/' and is not /exit is handled by
\* main alone: taking it and serving it hands nothing to the send handle and
\* leaves the peer directory as it is, the session stays Active, and from
\* serving /list main can only return to waiting for the next line.
C14_LocalCommandsStayLocal ==
    [][ /\ (TakesLine /\ LocalCommand(text'))
            => /\ sent' = sent
               /\ names' = names
               /\ mainResult' = "none"
               /\ mainPc' = (IF text' = CmdList THEN "list_lock" ELSE "recv")
        /\ mainPc \in ListPcs
            => /\ sent' = sent
               /\ mainResult' = "none"
               /\ mainPc' \in ListPcs \cup {"recv"}
               /\ mainPc' # mainPc => names' = names ]_vars

\* an unknown command and /list were both served, nothing was handed to the
\* send handle and main waits for the next line
C14_Witness ==
    /\ taken = <<LineFoo, LineList>>
    /\ mainPc = "recv"
    /\ sent = << >>
    /\ Len(mainOut) = 2

-----------------------------------------------------------------------------
(* C15 *)

\* the receive stream yields an event of another kind in this step
YieldsOther ==
    /\ Len(yielded') = Len(yielded) + 1
    /\ yielded'[Len(yielded')].kind \in OtherEvents

\* C15: an event of a kind other than Gossip(Received) changes nothing: the
\* directory, the terminal output (no line, no bell) and the record of
\* dispatched AboutMe messages stay as they are, no error is returned and
\* the dispatch task waits for the next event.
C15_OtherEventsIgnored ==
    [][ YieldsOther
           => /\ names' = names
              /\ names_lock' = names_lock
              /\ subOut' = subOut
              /\ aboutLog' = aboutLog
              /\ subResult' = "none"
              /\ subPc' = "next" ]_vars

\* a Lagged event was ignored and the AboutMe that followed was dispatched
C15_Witness ==
    /\ Len(yielded) = 2
    /\ yielded[1] = Event("Lagged", Empty)
    /\ subOut = << >>
    /\ subPc = "about_print"

-----------------------------------------------------------------------------
(* C16 *)

\* C16: every payload handed to the send handle is a serialized AboutMe or
\* Message whose from is the local node's identity.
C16_FromIsLocalIdentity ==
    \A i \in DOMAIN sent :
        /\ Len(sent[i]) = 3
        /\ sent[i][1] \in {"AboutMe", "Message"}
        /\ sent[i][2] = node_id

\* an AboutMe and a chat Message were handed to the send handle
C16_Witness ==
    /\ Len(sent) = 2
    /\ sent[1][1] = "AboutMe"
    /\ sent[2][1] = "Message"
    /\ sent[2][3] = <<"h", "i">>

-----------------------------------------------------------------------------
(* C19 *)

\* the messages the receive stream has yielded so far, in stream order
YieldedMessages ==
    LET decodable(e) == /\ e.kind = "Received"
                        /\ Len(e.content) = 3
                        /\ e.content[1] \in {"AboutMe", "Message"}
    IN  SelectSeq(yielded, decodable)

\* the lines the dispatch task has rendered so far (bells left out)
Rendered ==
    LET line(o) == o.kind # "bell"
    IN  SelectSeq(subOut, line)

\* the directory updates the dispatch task has made so far
Updates ==
    LET about(e) == e.content[1] = "AboutMe"
    IN  SelectSeq(SubSeq(YieldedMessages, 1, Len(Rendered)), about)

\* the line in the terminal renders the yielded Received event
Renders(o, e) ==
    IF e.content[1] = "AboutMe"
    THEN /\ o.kind = "joined"
         /\ o.who = SubSeq(e.content[2], 1, ShortLen)
         /\ o.body = e.content[3]
    ELSE /\ o.kind = "msg"
         /\ o.body = e.content[3]

\* C19: the dispatch task handles the yielded messages one at a time and
\* in stream order: the rendered lines are, one for one and in order, the
\* messages yielded so far, at most the last one still being handled and
\* none while the task waits for the next event; the directory updates
\* are, in order, the AboutMe messages among them.
C19_DispatchInStreamOrder ==
    /\ Len(Rendered) <= Len(YieldedMessages)
    /\ Len(YieldedMessages) <= Len(Rendered) + 1
    /\ subPc \in {"next", "about_bell", "msg_bell"}
          => Len(Rendered) = Len(YieldedMessages)
    /\ \A i \in DOMAIN Rendered : Renders(Rendered[i], YieldedMessages[i])
    /\ \A i \in DOMAIN Updates :
          /\ i \in DOMAIN aboutLog
          /\ aboutLog[i].from = Updates[i].content[2]
          /\ aboutLog[i].body = Updates[i].content[3]
    /\ Len(aboutLog) <= Len(Updates) + 1
    /\ subPc \in {"next", "about_bell", "msg_bell"}
          => Len(aboutLog) = Len(Updates)

\* one peer announced itself, sent a message and announced a new name, and
\* all three were rendered
C19_Witness ==
    /\ Len(YieldedMessages) = 3
    /\ YieldedMessages[1].content = to_vec(MsgAboutMe(PeerX, Bob))
    /\ YieldedMessages[2].content[1] = "Message"
    /\ YieldedMessages[3].content = to_vec(MsgAboutMe(PeerX, Carol))
    /\ Len(Rendered) = 3
    /\ subPc = "next"

-----------------------------------------------------------------------------
(* C20 *)

\* the lines input_loop has forwarded or is about to forward, in order
Forwarded ==
    taken \o line_chan \o (IF inPc = "send" THEN <<buffer>> ELSE << >>)

\* the texts of the taken lines that are chat lines, in order
ChatTaken ==
    LET chat(t) == ~StartsWithSlash(t)
    IN  SelectSeq(TakenTexts, chat)

\* C20: the lines read from the terminal are, one for one and in the order
\* they were read, the lines main has taken, the line in the channel and
\* the line input_loop is about to send: none is dropped, repeated or
\* merged with another; and the chat Messages handed to the send handle
\* carry, in order, the texts of the chat lines taken, at most the last of
\* them not sent yet.
C20_LinesForwardedOnceInOrder ==
    /\ typedLog = Forwarded
    /\ Len(ChatSent) <= Len(ChatTaken)
    /\ Len(ChatTaken) <= Len(ChatSent) + 1
    /\ \A i \in DOMAIN ChatSent : ChatSent[i][3] = ChatTaken[i]

\* three lines were read and taken, and the two chat lines among them were
\* sent around the command between them
C20_Witness ==
    /\ typedLog = <<LineHi, LineFoo, LineHi>>
    /\ taken = typedLog
    /\ Len(ChatSent) = 2
    /\ inPc = "read"

-----------------------------------------------------------------------------
(* C17 *)

\* the program was started with `join` and a ticket text that is not the
\* text of a ticket: a character that is no base-32 symbol, a length or
\* trailing bits no encoding has, a payload that is no serialized Ticket
UndecodableTicket == command.kind = "Join" /\ command.ticket \in BadTexts

\* C17: with an undecodable ticket main only returns the error of
\* Ticket::from_str: it never gets past the command, resolves no topic and
\* no nodes, registers no address, never reaches subscribe_and_join, hands
\* nothing to the send handle and starts neither subscribe_loop nor
\* input_loop.
C17_UndecodableTicketIsFatal ==
    UndecodableTicket
       => /\ mainPc \in {"start", "ret"}
          /\ mainPc = "start" => mainResult = "none"
          /\ mainPc = "ret" => mainResult = "TicketError"
          /\ topic = NoTopic
          /\ nodes = << >>
          /\ known = {}
          /\ sent = << >>
          /\ subPc = "off"
          /\ inPc = "off"

\* main returned the error for a text that decodes to bytes that are no
\* Ticket
C17_Witness ==
    /\ command = Join(BadPayload)
    /\ mainPc = "ret"
    /\ mainResult = "TicketError"

-----------------------------------------------------------------------------
(* C18 *)

IsUpper(c) == \E i \in 1..26 : Alphabet[i] = c
IsLower(c) == \E i \in 1..26 : LowerLetters[i] = c

\* C18: the printed text of a ticket has no upper-case letter, and the
\* text typed back with its letters in any case parses to a ticket with
\* the same topic and the same set of nodes.
C18_TicketRoundTripAnyCase ==
    /\ tkPc = "text"
          => /\ tkText # Empty
             /\ \A i \in DOMAIN tkText : ~IsUpper(tkText[i])
    /\ tkPc = "done"
          => /\ tkParsed.ok
             /\ tkParsed.ticket.topic = tk.topic
             /\ {tkParsed.ticket.nodes[i] : i \in DOMAIN tkParsed.ticket.nodes}
                   = {tk.nodes[i] : i \in DOMAIN tk.nodes}

\* a ticket with two different nodes was parsed from a text in mixed case
C18_Witness ==
    /\ tkPc = "done"
    /\ tk.nodes = <<PeerX, PeerY>>
    /\ \E i, j \in DOMAIN tkText : IsUpper(tkText[i]) /\ IsLower(tkText[j])
    /\ tkParsed.ok
    /\ tkParsed.ticket = tk

=============================================================================
